---- MODULE Spec2Model ----
(***************************************************************************)
(* A model of the SMART-on-FHIR authorization handler                      *)
(* (src/lib/smartHandler.js, src/lib/smartAuthorizationHelper.js).         *)
(*                                                                         *)
(* Two specifications share the variables:                                 *)
(*   HelperSpec  applies the exported pure helpers of                      *)
(*               smartAuthorizationHelper.js to inputs drawn from bounded  *)
(*               sets;                                                     *)
(*   Spec        is one SMARTHandler instance serving requests: token      *)
(*               verification (with its suspension point at the network    *)
(*               call), then the operations that take the UserIdentity.    *)
(***************************************************************************)
EXTENDS Integers, Sequences, FiniteSets, TLC

VARIABLES h, handler, pc, req, result, netCalls, stages, pending, settled

vars == <<h, handler, pc, req, result, netCalls, stages, pending, settled>>

handlerVars == <<handler, pc, req, result, netCalls, stages, pending, settled>>

(***************************************************************************)
(* Bounds of the model.                                                    *)
(***************************************************************************)
\* number of scopes a token (or a helper call) carries
MaxScopes == 2
\* number of entries in a bundle / a search response
MaxEntries == 2

(***************************************************************************)
(* Strings.  Resource type names and scope strings are sequences of        *)
(* characters, so that String.prototype.startsWith is computed.            *)
(***************************************************************************)
Chars(w) ==
    CASE w = "" -> << >>
      [] w = "*" -> <<"*">>
      [] w = "system" -> <<"s","y","s","t","e","m">>
      [] w = "user" -> <<"u","s","e","r">>
      [] w = "patient" -> <<"p","a","t","i","e","n","t">>
      [] w = "read" -> <<"r","e","a","d">>
      [] w = "write" -> <<"w","r","i","t","e">>
      [] w = "Patient" -> <<"P","a","t","i","e","n","t">>
      [] w = "Practitioner" -> <<"P","r","a","c","t","i","t","i","o","n","e","r">>
      [] w = "Encounter" -> <<"E","n","c","o","u","n","t","e","r">>
      [] w = "Medication" -> <<"M","e","d","i","c","a","t","i","o","n">>
      [] w = "MedicationRequest" ->
            <<"M","e","d","i","c","a","t","i","o","n","R","e","q","u","e","s","t">>

\* String.prototype.startsWith
StartsWith(s, p) == Len(p) <= Len(s) /\ SubSeq(s, 1, Len(p)) = p

\* A SMART scope `${scopeType}/${resourceType}.${accessType}` as the string it is.
ScopeStr(sc) ==
    Chars(sc.scopeType) \o <<"/">> \o Chars(sc.resourceType) \o <<".">> \o Chars(sc.accessType)

Scope(st, rt, at) == [scopeType |-> st, resourceType |-> rt, accessType |-> at]

(***************************************************************************)
(* Identities and reference strings.  `${hostname}/${resourceType}/${id}`  *)
(* and `${resourceType}/${id}` are kept by their parts: a hostname starts  *)
(* with a scheme and an id holds no "/", so the parts determine the string *)
(* and the string the parts.                                               *)
(***************************************************************************)
ApiUrl == "https://api.example.com"
ExtUrl == "https://other.example.org"

NoId == [hostname |-> "", resourceType |-> "", id |-> ""]
Ident(hn, rt, i) == [hostname |-> hn, resourceType |-> rt, id |-> i]

AbsRef(hn, rt, i) == [form |-> "abs", hostname |-> hn, resourceType |-> rt, id |-> i]
RelRef(rt, i) == [form |-> "rel", hostname |-> "", resourceType |-> rt, id |-> i]

(***************************************************************************)
(* JSON values of a resource body.                                         *)
(***************************************************************************)
Undef == [k |-> "undefined"]
Null == [k |-> "null"]
Str(s) == [k |-> "string", s |-> s]
Arr(a) == [k |-> "array", a |-> a]
Obj(f) == [k |-> "object", f |-> f]
\* a Reference element {reference: "..."}
RefTo(r) == Obj([reference |-> Str(r)])

\* v[name] for a v that is neither null nor undefined
Get(v, name) == IF v.k = "object" /\ name \in DOMAIN v.f THEN v.f[name] ELSE Undef
\* the values of a resource body are objects, arrays, null and non-empty strings
Truthy(v) == v.k \notin {"undefined", "null"}
\* reading a property of null or undefined raises a TypeError
Nullish(v) == v.k \in {"undefined", "null"}

ResType(res) == Get(res, "resourceType").s
ResId(res) == IF Get(res, "id").k = "string" THEN Get(res, "id").s ELSE ""

(***************************************************************************)
(* The reference matrices (static data of the repository, not under src/): *)
(* matrix[sourceType][requestorType] = paths, a path being its components. *)
(***************************************************************************)
MatrixR4(src, rq) ==
    CASE src = "Encounter" /\ rq = "Patient" -> << <<"subject">> >>
      [] src = "Encounter" /\ rq = "Practitioner" -> << <<"participant", "individual">> >>
      [] src = "MedicationRequest" /\ rq = "Patient" -> << <<"subject">>, <<"requester">> >>
      [] src = "MedicationRequest" /\ rq = "Practitioner" -> << <<"requester">>, <<"recorder">> >>
      [] src = "Patient" /\ rq = "Patient" -> << <<"link", "other">> >>
      [] src = "Patient" /\ rq = "Practitioner" -> << <<"generalPractitioner">> >>
      [] OTHER -> << >>

MatrixSTU3(src, rq) ==
    CASE src = "Encounter" /\ rq = "Patient" -> << <<"subject">> >>
      [] src = "Encounter" /\ rq = "Practitioner" -> << <<"participant", "individual">> >>
      [] src = "MedicationRequest" /\ rq = "Patient" -> << <<"subject">>, <<"requester", "agent">> >>
      [] src = "MedicationRequest" /\ rq = "Practitioner" -> << <<"requester", "agent">>, <<"recorder">> >>
      [] src = "Patient" /\ rq = "Patient" -> << <<"link", "other">> >>
      [] src = "Patient" /\ rq = "Practitioner" -> << <<"generalPractitioner">> >>
      [] OTHER -> << >>

FhirVersions == {"4.0.1", "3.0.1", "5.0.0"}

(***************************************************************************)
(* Outcomes of a boolean helper: it returns a truthy or a falsy value, or  *)
(* raises.                                                                 *)
(***************************************************************************)
T == "true"
F == "false"
\* the TypeError of reading property comp of a value of kind null or undefined, with
\* the message the JavaScript engine gives it
TypeErrMessage(kind, comp) == "Cannot read properties of " \o kind \o " (reading '" \o comp \o "')"
TypeErr(kind, comp) == "TypeError: " \o TypeErrMessage(kind, comp)
VersionErr == "Error: Unsupported FHIR version detected"

Bool(b) == IF b THEN T ELSE F

(***************************************************************************)
(* isRequestorReferenced.  A queue is [throw, q]: throw when reading a     *)
(* property of a null list element raised a TypeError, else the values.    *)
(***************************************************************************)
Queue(q) == [throw |-> FALSE, q |-> q, err |-> ""]
Threw(kind, comp) == [throw |-> TRUE, q |-> << >>, err |-> TypeErr(kind, comp)]

\* what is pushed first, then what the rest of the loop pushes
Joined(first, rest) ==
    IF first.throw THEN first
    ELSE IF rest.throw THEN rest
    ELSE Queue(first.q \o rest.q)

\* tempResource.forEach((x) => nextQueue.push(x[pathComponents[i]]))
RECURSIVE PushAll(_, _, _)
PushAll(a, comp, i) ==
    IF i > Len(a) THEN Queue(<< >>)
    ELSE IF Nullish(a[i]) THEN Threw(a[i].k, comp)
    ELSE Joined(Queue(<<Get(a[i], comp)>>), PushAll(a, comp, i + 1))

\* one element shifted from rootQueue
WalkElement(el, comp) ==
    IF ~Truthy(el) THEN Queue(<< >>)
    ELSE IF el.k = "array" THEN PushAll(el.a, comp, 1)
    ELSE Queue(<<Get(el, comp)>>)

\* the while loop over rootQueue for one path component
RECURSIVE WalkLayer(_, _, _)
WalkLayer(rootQueue, comp, i) ==
    IF i > Len(rootQueue) THEN Queue(<< >>)
    ELSE Joined(WalkElement(rootQueue[i], comp), WalkLayer(rootQueue, comp, i + 1))

\* the for loop over pathComponents[1..]
RECURSIVE WalkPath(_, _, _)
RECURSIVE WalkOn(_, _, _)
WalkOn(layer, path, i) == IF layer.throw THEN layer ELSE WalkPath(layer.q, path, i + 1)

WalkPath(nextQueue, path, i) ==
    IF i > Len(path) THEN Queue(nextQueue)
    ELSE WalkOn(WalkLayer(nextQueue, path[i], 1), path, i)

\* Array.prototype.flat(), depth 1
RECURSIVE Flat(_, _)
Flat(q, i) ==
    IF i > Len(q) THEN << >>
    ELSE (IF q[i].k = "array" THEN q[i].a ELSE <<q[i]>>) \o Flat(q, i + 1)

\* x && x.reference && requestorIds.includes(x.reference)
LeafMatches(x, requestorIds) ==
    /\ Truthy(x)
    /\ Truthy(Get(x, "reference"))
    /\ \E j \in 1..Len(requestorIds) : requestorIds[j] = Get(x, "reference").s

AnyLeafMatches(leaves, requestorIds) ==
    \E j \in 1..Len(leaves) : LeafMatches(leaves[j], requestorIds)

LeavesOutcome(walked, requestorIds) ==
    IF walked.throw THEN walked.err ELSE Bool(AnyLeafMatches(Flat(walked.q, 1), requestorIds))

\* the callback of possiblePaths.some for one path
PathOutcome(path, requestorIds, sourceResource) ==
    LeavesOutcome(WalkPath(<<Get(sourceResource, path[1])>>, path, 2), requestorIds)

\* a || b, where a is an outcome and b is only evaluated when a is falsy
OrElse(a, b) == IF a = F THEN b ELSE a

\* possiblePaths.some(...), left to right
RECURSIVE SomePath(_, _, _, _)
SomePath(paths, requestorIds, sourceResource, i) ==
    IF i > Len(paths) THEN F
    ELSE OrElse(PathOutcome(paths[i], requestorIds, sourceResource),
                SomePath(paths, requestorIds, sourceResource, i + 1))

\* matrix[sourceResourceType][requestorResourceType], or no path
PossiblePaths(fhirVersion, sourceResourceType, requestorResourceType) ==
    IF fhirVersion = "4.0.1" THEN MatrixR4(sourceResourceType, requestorResourceType)
    ELSE MatrixSTU3(sourceResourceType, requestorResourceType)

isRequestorReferenced(requestorIds, requestorResourceType, sourceResource, fhirVersion) ==
    IF fhirVersion \notin {"4.0.1", "3.0.1"} THEN VersionErr
    ELSE SomePath(PossiblePaths(fhirVersion, ResType(sourceResource), requestorResourceType),
                  requestorIds, sourceResource, 1)

\* the candidate strings hasReferenceToResource passes on
RequestorIds(requestorId, apiUrl) ==
    IF requestorId.hostname # apiUrl
    THEN <<AbsRef(requestorId.hostname, requestorId.resourceType, requestorId.id)>>
    ELSE <<RelRef(requestorId.resourceType, requestorId.id),
           AbsRef(requestorId.hostname, requestorId.resourceType, requestorId.id)>>

hasReferenceToResource(requestorId, sourceResource, apiUrl, fhirVersion) ==
    IF /\ requestorId.hostname = apiUrl
       /\ requestorId.resourceType = ResType(sourceResource)
       /\ requestorId.id = ResId(sourceResource)
    THEN T
    ELSE isRequestorReferenced(RequestorIds(requestorId, apiUrl), requestorId.resourceType,
                               sourceResource, fhirVersion)

isFhirUserAdmin(fhirUser, adminAccessTypes, apiUrl) ==
    apiUrl = fhirUser.hostname /\ fhirUser.resourceType \in adminAccessTypes

hasSystemAccess(usableScopes, resourceType) ==
    \E j \in 1..Len(usableScopes) :
        \/ StartsWith(ScopeStr(usableScopes[j]), Chars("system") \o <<"/", "*">>)
        \/ StartsWith(ScopeStr(usableScopes[j]), Chars("system") \o <<"/">> \o Chars(resourceType))

hasAccessToResource(fhirUserObject, patientLaunchContext, sourceResource, usableScopes, adminAccessTypes, apiUrl, fhirVersion) ==
    OrElse(Bool(hasSystemAccess(usableScopes, ResType(sourceResource))),
      OrElse(IF fhirUserObject = NoId THEN F
             ELSE OrElse(Bool(isFhirUserAdmin(fhirUserObject, adminAccessTypes, apiUrl)),
                         hasReferenceToResource(fhirUserObject, sourceResource, apiUrl, fhirVersion)),
             IF patientLaunchContext = NoId THEN F
             ELSE hasReferenceToResource(patientLaunchContext, sourceResource, apiUrl, fhirVersion)))

(***************************************************************************)
(* getFhirUser / getFhirResource.  A string to be parsed is kept as the    *)
(* three parts the regular expressions look for: what precedes             *)
(* "/Type/id" (nothing, or a URL), the type and the id.                    *)
(***************************************************************************)
NoClaim == [prefix |-> "", resourceType |-> "", id |-> ""]
ClaimStr(p, rt, i) == [prefix |-> p, resourceType |-> rt, id |-> i]

\* (http|https)://([A-Za-z0-9\-\\.:%$_/])+
HttpUrls == {ApiUrl, ExtUrl}
\* [A-Za-z0-9\-.]+
WellFormedIds == {"p1", "pt1", "pt2"}
\* Person|Practitioner|RelatedPerson|Patient
FhirUserTypes == {"Person", "Practitioner", "RelatedPerson", "Patient"}
\* [A-Z][a-zA-Z]+
CapitalizedTypes == FhirUserTypes \cup {"Encounter", "Medication", "MedicationRequest"}

FHIR_USER_REGEX(v) ==
    v.prefix \in HttpUrls /\ v.resourceType \in FhirUserTypes /\ v.id \in WellFormedIds

FHIR_RESOURCE_REGEX(v) ==
    v.prefix \in HttpUrls \cup {""} /\ v.resourceType \in CapitalizedTypes /\ v.id \in WellFormedIds

Unauthorized(m) == [kind |-> "UnauthorizedError", msg |-> m]
Raised(k, m) == [kind |-> k, msg |-> m]
NoError == [kind |-> "", msg |-> ""]

GENERIC_ERR_MESSAGE == "Invalid access token"

getFhirUser(fhirUserValue) ==
    IF FHIR_USER_REGEX(fhirUserValue)
    THEN [err |-> NoError,
          id |-> Ident(fhirUserValue.prefix, fhirUserValue.resourceType, fhirUserValue.id)]
    ELSE [err |-> Unauthorized("Requester's identity is in the incorrect format"), id |-> NoId]

getFhirResource(resourceValue, defaultHostname) ==
    IF FHIR_RESOURCE_REGEX(resourceValue)
    THEN [err |-> NoError,
          id |-> Ident(IF resourceValue.prefix = "" THEN defaultHostname ELSE resourceValue.prefix,
                       resourceValue.resourceType, resourceValue.id)]
    ELSE [err |-> Unauthorized("Resource is in the incorrect format"), id |-> NoId]

(***************************************************************************)
(* Inputs: identities, scopes and resource bodies.                         *)
(***************************************************************************)
PractA == Ident(ApiUrl, "Practitioner", "p1")
PatA == Ident(ApiUrl, "Patient", "pt1")
PractX == Ident(ExtUrl, "Practitioner", "p1")
PatX == Ident(ExtUrl, "Patient", "pt1")

ScopeCatalogue ==
    << Scope("system", "*", "read"),
       Scope("system", "MedicationRequest", "read"),
       Scope("system", "Encounter", "write"),
       Scope("user", "*", "write"),
       Scope("user", "Encounter", "read"),
       Scope("patient", "*", "read"),
       Scope("patient", "MedicationRequest", "write") >>

\* the sequence of the elements of a set of indices, in increasing order
RECURSIVE Ascending(_)
Ascending(S) ==
    IF S = {} THEN << >>
    ELSE LET m == CHOOSE x \in S : \A y \in S : x <= y
         IN  <<m>> \o Ascending(S \ {m})

Pick(cat, S) == [j \in 1..Cardinality(S) |-> cat[Ascending(S)[j]]]

\* the scope lists of at most MaxScopes scopes, in catalogue order
ScopeLists ==
    {Pick(ScopeCatalogue, S) :
        S \in {X \in SUBSET (1..Len(ScopeCatalogue)) : Cardinality(X) <= MaxScopes}}

Res(rt, i, f) == Obj([resourceType |-> Str(rt), id |-> Str(i)] @@ f)

\* resource bodies: references in relative and absolute form, lists, nested
\* lists, absent fields and null list elements
ResourceCatalogue ==
    << Res("Patient", "pt1", <<>>),
       Res("Patient", "pt2", [generalPractitioner |-> Arr(<<RefTo(RelRef("Practitioner", "p1"))>>)]),
       Res("Patient", "pt2", [link |-> Arr(<<Obj([other |-> RefTo(AbsRef(ExtUrl, "Patient", "pt1"))])>>)]),
       Res("Practitioner", "p1", <<>>),
       Res("Encounter", "e1", [subject |-> RefTo(RelRef("Patient", "pt1"))]),
       Res("Encounter", "e1", [subject |-> RefTo(AbsRef(ApiUrl, "Patient", "pt1"))]),
       Res("Encounter", "e1", [subject |-> RefTo(AbsRef(ExtUrl, "Patient", "pt1"))]),
       Res("Encounter", "e1", [subject |-> RefTo(RelRef("Patient", "pt2")),
                               participant |-> Arr(<<Obj([period |-> Str("2020")]),
                                                     Obj([individual |-> RefTo(RelRef("Practitioner", "p1"))])>>)]),
       Res("Encounter", "e1", [participant |-> Arr(<<Obj([individual |-> Arr(<<RefTo(RelRef("Patient", "pt2")),
                                                                                RefTo(AbsRef(ExtUrl, "Practitioner", "p1"))>>)])>>)]),
       Res("Encounter", "e1", [participant |-> Arr(<<Null,
                                                     Obj([individual |-> RefTo(RelRef("Practitioner", "p1"))])>>),
                               subject |-> RefTo(RelRef("Patient", "pt1"))]),
       Res("MedicationRequest", "mr1", [subject |-> RefTo(RelRef("Patient", "pt2")),
                                        requester |-> RefTo(AbsRef(ApiUrl, "Practitioner", "p1"))]),
       Res("MedicationRequest", "mr1", [subject |-> RefTo(RelRef("Patient", "pt2")),
                                        requester |-> Obj([agent |-> RefTo(RelRef("Patient", "pt1"))])]),
       Res("MedicationRequest", "mr1", [subject |-> Null,
                                        requester |-> Arr(<<Null>>),
                                        recorder |-> RefTo(RelRef("Practitioner", "p1"))]),
       Res("Medication", "m1", <<>>) >>

ResourceTypes == {"Patient", "Practitioner", "Encounter", "Medication", "MedicationRequest"}

(***************************************************************************)
(* HelperSpec: the exported helpers applied to bounded inputs.  h is the   *)
(* last call: its function, its arguments and what it returned or raised.  *)
(***************************************************************************)
HIdle ==
    [fn |-> "none", fhirUser |-> NoId, patient |-> NoId, resource |-> Res("Medication", "m1", <<>>),
     scopes |-> << >>, apiUrl |-> ApiUrl, version |-> "4.0.1", rtype |-> "", out |-> F]

AdminAccessTypes == {"Practitioner"}
BulkDataAccessTypes == {"Practitioner"}

HelperIdentities == {PractA, PatA, PractX, PatX}
HelperResources == {ResourceCatalogue[j] : j \in 1..Len(ResourceCatalogue)}

CallHasSystemAccess ==
    /\ h.fn = "none"
    /\ UNCHANGED handlerVars
    /\ \E sl \in ScopeLists, rt \in ResourceTypes \cup {""} :
        h' = [HIdle EXCEPT !.fn = "hasSystemAccess", !.scopes = sl, !.rtype = rt,
                           !.out = Bool(hasSystemAccess(sl, rt))]

CallIsFhirUserAdmin ==
    /\ h.fn = "none"
    /\ UNCHANGED handlerVars
    /\ \E fu \in HelperIdentities, url \in HttpUrls :
        h' = [HIdle EXCEPT !.fn = "isFhirUserAdmin", !.fhirUser = fu, !.apiUrl = url,
                           !.out = Bool(isFhirUserAdmin(fu, AdminAccessTypes, url))]

CallHasReferenceToResource ==
    /\ h.fn = "none"
    /\ UNCHANGED handlerVars
    /\ \E rq \in HelperIdentities, res \in HelperResources, url \in HttpUrls, v \in FhirVersions :
        h' = [HIdle EXCEPT !.fn = "hasReferenceToResource", !.fhirUser = rq, !.resource = res,
                           !.apiUrl = url, !.version = v,
                           !.out = hasReferenceToResource(rq, res, url, v)]

CallIsRequestorReferenced ==
    /\ h.fn = "none"
    /\ UNCHANGED handlerVars
    /\ \E rq \in HelperIdentities, res \in HelperResources, url \in HttpUrls, v \in FhirVersions :
        h' = [HIdle EXCEPT !.fn = "isRequestorReferenced", !.fhirUser = rq, !.resource = res,
                           !.apiUrl = url, !.version = v,
                           !.out = isRequestorReferenced(RequestorIds(rq, url), rq.resourceType,
                                                         res, v)]

CallHasAccessToResource ==
    /\ h.fn = "none"
    /\ UNCHANGED handlerVars
    /\ \E fu \in HelperIdentities \cup {NoId}, pl \in {NoId, PatA, PatX}, res \in HelperResources,
       sl \in ScopeLists, v \in FhirVersions :
        h' = [HIdle EXCEPT !.fn = "hasAccessToResource", !.fhirUser = fu, !.patient = pl,
                           !.resource = res, !.scopes = sl, !.version = v,
                           !.out = hasAccessToResource(fu, pl, res, sl, AdminAccessTypes, ApiUrl, v)]

\* the caller has its answer; the next call starts afresh
HelperReturn == h.fn # "none" /\ h' = HIdle /\ UNCHANGED handlerVars

HandlerUnused ==
    /\ handler = "unused" /\ pc = "unused" /\ req = "unused" /\ result = "unused"
    /\ netCalls = 0 /\ stages = << >> /\ pending = {} /\ settled = << >>

HelperInit == h = HIdle /\ HandlerUnused

HelperNext ==
    \/ CallHasSystemAccess
    \/ CallIsFhirUserAdmin
    \/ CallHasReferenceToResource
    \/ CallIsRequestorReferenced
    \/ CallHasAccessToResource
    \/ HelperReturn

HelperSpec == HelperInit /\ [][HelperNext]_vars

(***************************************************************************)
(* smartScopeHelper (a module of the repository that is not under src/):   *)
(* the scope rule table and the usable-scope filter.                       *)
(***************************************************************************)
ReadOperations ==
    {"read", "vread", "search-type", "search-system", "history-instance", "history-type", "history-system"}
WriteOperations == {"create", "update", "patch", "delete", "transaction"}

SEARCH_OPERATIONS ==
    {"search-type", "search-system", "history-type", "history-instance", "history-system"}

\* config.scopeRule: the same table for the three scope types
getValidOperationsForScopeTypeAndAccessType(scopeType, accessType) ==
    IF accessType = "read" THEN ReadOperations
    ELSE IF accessType = "write" THEN WriteOperations
    ELSE {}

NoBulk == [operation |-> "", exportType |-> ""]
BulkInitiateSystem == [operation |-> "initiate-export", exportType |-> "system"]
BulkGetStatus == [operation |-> "get-status-export", exportType |-> ""]

\* a scope is sufficient when its rule-table entry permits the operation and its resource
\* type is * or the resource type asked for
isScopeSufficient(scope, reqOperation, isUserScopeAllowedForSystemExport, reqResourceType) ==
    /\ reqOperation \in getValidOperationsForScopeTypeAndAccessType(scope.scopeType, scope.accessType)
    /\ \/ scope.resourceType = "*"
       \/ scope.resourceType = reqResourceType

filterOutUnusableScope(scopes, reqOperation, isUserScopeAllowedForSystemExport, reqResourceType, bulkDataAuth, patientContext, fhirUser) ==
    LET Keep(scope) ==
            /\ \/ patientContext # NoClaim /\ StartsWith(ScopeStr(scope), Chars("patient") \o <<"/">>)
               \/ fhirUser # NoClaim /\ StartsWith(ScopeStr(scope), Chars("user") \o <<"/">>)
               \/ StartsWith(ScopeStr(scope), Chars("system") \o <<"/">>)
            /\ isScopeSufficient(scope, reqOperation, isUserScopeAllowedForSystemExport,
                                 reqResourceType)
    IN  SelectSeq(scopes, Keep)

\* the scope claim is kept as the list getScopes splits it into
getScopes(scopeClaim) == scopeClaim

(***************************************************************************)
(* The handler's configuration (constructor arguments and their defaults). *)
(***************************************************************************)
HandlerVersion == 1
ExpectedIss == "https://idp.example.com"
ExpectedAud == "api://default"
IsUserScopeAllowedForSystemExport == FALSE
FhirVersion == "4.0.1"

(***************************************************************************)
(* Access tokens.                                                          *)
(***************************************************************************)
NoIdentity ==
    [sub |-> "", scopes |-> << >>, usableScopes |-> << >>, fhirUserObject |-> NoId,
     patientLaunchContext |-> NoId]

Claims(sc, fu, pt, sub) == [scope |-> sc, fhirUser |-> fu, patient |-> pt, sub |-> sub]
NoClaims == Claims(<< >>, NoClaim, NoClaim, "")

\* aud: undefined, a string, or an array of strings
AudUndefined == [k |-> "undefined", v |-> << >>]
AudString(a) == [k |-> "string", v |-> <<a>>]
AudArray(a) == [k |-> "array", v |-> a]

Token(dec, iss, aud, kid, sig, act, cl) ==
    [decodable |-> dec, iss |-> iss, aud |-> aud, kid |-> kid, signatureValid |-> sig,
     active |-> act, claims |-> cl]
NoToken == Token(FALSE, "", AudUndefined, FALSE, FALSE, FALSE, NoClaims)

\* decodeJwtToken without the issuer check
decodeJwtTokenAnyIssuer(token, expectedAudValue, expectedIssValue) ==
    IF ~token.decodable THEN [passed |-> << >>, err |-> Unauthorized(GENERIC_ERR_MESSAGE)]
    ELSE LET audArray == IF token.aud.k = "undefined" THEN << >> ELSE token.aud.v
             audMatch == \E j \in 1..Len(audArray) : expectedAudValue = audArray[j]
         IN  IF ~audMatch
             THEN [passed |-> <<"decode", "iss">>, err |-> Unauthorized(GENERIC_ERR_MESSAGE)]
             ELSE [passed |-> <<"decode", "iss", "aud">>, err |-> NoError]

\* decodeJwtToken with a message that tells the issuer and audience failures apart
decodeJwtTokenNamingCause(token, expectedAudValue, expectedIssValue) ==
    IF ~token.decodable THEN [passed |-> << >>, err |-> Unauthorized(GENERIC_ERR_MESSAGE)]
    ELSE IF expectedIssValue # token.iss
    THEN [passed |-> <<"decode">>, err |-> Unauthorized("Invalid issuer")]
    ELSE LET audArray == IF token.aud.k = "undefined" THEN << >> ELSE token.aud.v
             audMatch == \E j \in 1..Len(audArray) : expectedAudValue = audArray[j]
         IN  IF ~audMatch
             THEN [passed |-> <<"decode", "iss">>, err |-> Unauthorized("Invalid audience")]
             ELSE [passed |-> <<"decode", "iss", "aud">>, err |-> NoError]

\* decodeJwtToken: the checks the token passed, and the error of the one it failed
decodeJwtToken(token, expectedAudValue, expectedIssValue) ==
    IF ~token.decodable THEN [passed |-> << >>, err |-> Unauthorized(GENERIC_ERR_MESSAGE)]
    ELSE IF expectedIssValue # token.iss
    THEN [passed |-> <<"decode">>, err |-> Unauthorized(GENERIC_ERR_MESSAGE)]
    ELSE LET audArray == IF token.aud.k = "undefined" THEN << >> ELSE token.aud.v
             audMatch == \E j \in 1..Len(audArray) : expectedAudValue = audArray[j]
         IN  IF ~audMatch
             THEN [passed |-> <<"decode", "iss">>, err |-> Unauthorized(GENERIC_ERR_MESSAGE)]
             ELSE [passed |-> <<"decode", "iss", "aud">>, err |-> NoError]

(***************************************************************************)
(* verifyAccessToken after the token is verified (smartHandler.js 52-91).  *)
(***************************************************************************)
EffectiveBaseUrl(fhirServiceBaseUrl, apiUrl) ==
    IF fhirServiceBaseUrl # "" THEN fhirServiceBaseUrl ELSE apiUrl

AnyStartsWith(scopes, prefix) ==
    \E j \in 1..Len(scopes) : StartsWith(ScopeStr(scopes[j]), prefix)

\* the check of the usable scopes left out
InsufficientScopesNever(usableScopes) == FALSE

InsufficientScopes(usableScopes) == Len(usableScopes) = 0

\* the bulkDataAuth block: the error it throws, or NoError
BulkDataCheck(request, claims, usableScopes, fhirServiceBaseUrl, bulkDataAccessTypes) ==
    IF request.bulkDataAuth = NoBulk THEN NoError
    ELSE IF claims.sub = ""
    THEN Unauthorized("User does not have permission for requested operation")
    ELSE IF AnyStartsWith(usableScopes, Chars("system")) THEN NoError
    ELSE IF claims.fhirUser = NoClaim
    THEN Raised("TypeError", "Cannot read properties of undefined (reading 'match')")
    ELSE LET fhirUser == getFhirUser(claims.fhirUser)
         IN  IF fhirUser.err # NoError THEN fhirUser.err
             ELSE IF fhirUser.id.hostname # fhirServiceBaseUrl
                     \/ fhirUser.id.resourceType \notin bulkDataAccessTypes
             THEN Unauthorized("User does not have permission for requested operation")
             ELSE NoError

VerifiedIdentity(request, claims, apiUrl) ==
    LET fhirUserClaim == claims.fhirUser
        patientContextClaim == claims.patient
        fhirServiceBaseUrl == EffectiveBaseUrl(request.fhirServiceBaseUrl, apiUrl)
        scopes == getScopes(claims.scope)
        usableScopes == filterOutUnusableScope(scopes, request.operation,
                            IsUserScopeAllowedForSystemExport, request.resourceType,
                            request.bulkDataAuth, patientContextClaim, fhirUserClaim)
        bulk == BulkDataCheck(request, claims, usableScopes, fhirServiceBaseUrl, BulkDataAccessTypes)
        withUser == fhirUserClaim # NoClaim /\ AnyStartsWith(usableScopes, Chars("user") \o <<"/">>)
        withPatient == patientContextClaim # NoClaim /\ AnyStartsWith(usableScopes, Chars("patient") \o <<"/">>)
        fhirUser == getFhirUser(fhirUserClaim)
        patient == getFhirResource(patientContextClaim, fhirServiceBaseUrl)
    IN  IF InsufficientScopes(usableScopes)
        THEN [err |-> Unauthorized("access_token does not have permission for requested operation"),
              identity |-> NoIdentity]
        ELSE IF bulk # NoError THEN [err |-> bulk, identity |-> NoIdentity]
        ELSE IF withUser /\ fhirUser.err # NoError THEN [err |-> fhirUser.err, identity |-> NoIdentity]
        ELSE IF withPatient /\ patient.err # NoError THEN [err |-> patient.err, identity |-> NoIdentity]
        ELSE [err |-> NoError,
              identity |-> [sub |-> claims.sub, scopes |-> scopes, usableScopes |-> usableScopes,
                            fhirUserObject |-> IF withUser THEN fhirUser.id ELSE NoId,
                            patientLaunchContext |-> IF withPatient THEN patient.id ELSE NoId]]

(***************************************************************************)
(* The operations that take a UserIdentity.                                *)
(***************************************************************************)
\* what a helper that raised throws at its caller
\* the property names the paths of the matrices read
PathComponents ==
    {"subject", "participant", "individual", "requester", "agent", "recorder", "link", "other",
     "generalPractitioner"}

Thrown(outcome) ==
    IF outcome = VersionErr THEN Raised("Error", "Unsupported FHIR version detected")
    ELSE LET at == CHOOSE p \in {"null", "undefined"} \X PathComponents :
                       outcome = TypeErr(p[1], p[2])
         IN  Raised("TypeError", TypeErrMessage(at[1], at[2]))

\* Set.prototype.add on a set kept in insertion order
Add(set, x) == IF \E j \in 1..Len(set) : set[j] = x THEN set ELSE Append(set, x)

SearchFilter(key, value) ==
    [key |-> key, value |-> value, comparisonOperator |-> "==", logicalOperator |-> "OR"]

\* the references and ids one identity adds
\* both forms of the reference, whatever the hostname
AddReferencesBothForms(references, ident, fhirServiceBaseUrl) ==
    Add(Add(references, AbsRef(ident.hostname, ident.resourceType, ident.id)),
        RelRef(ident.resourceType, ident.id))

AddReferences(references, ident, fhirServiceBaseUrl) ==
    LET abs == Add(references, AbsRef(ident.hostname, ident.resourceType, ident.id))
    IN  IF ident.hostname = fhirServiceBaseUrl
        THEN Add(abs, RelRef(ident.resourceType, ident.id))
        ELSE abs

AddIds(ids, ident, requestResourceType) ==
    IF requestResourceType # "" /\ requestResourceType = ident.resourceType
    THEN Add(ids, ident.id)
    ELSE ids

getSearchFilterBasedOnIdentity(request, apiUrl, adminAccessTypes) ==
    LET fhirUserObject == request.userIdentity.fhirUserObject
        patientLaunchContext == request.userIdentity.patientLaunchContext
        fhirServiceBaseUrl == EffectiveBaseUrl(request.fhirServiceBaseUrl, apiUrl)
        refs1 == IF fhirUserObject # NoId
                 THEN AddReferences(<< >>, fhirUserObject, fhirServiceBaseUrl) ELSE << >>
        ids1 == IF fhirUserObject # NoId
                THEN AddIds(<< >>, fhirUserObject, request.resourceType) ELSE << >>
        references == IF patientLaunchContext # NoId
                      THEN AddReferences(refs1, patientLaunchContext, fhirServiceBaseUrl) ELSE refs1
        ids == IF patientLaunchContext # NoId
               THEN AddIds(ids1, patientLaunchContext, request.resourceType) ELSE ids1
    IN  IF hasSystemAccess(request.userIdentity.usableScopes, "") THEN << >>
        ELSE IF fhirUserObject # NoId /\ isFhirUserAdmin(fhirUserObject, adminAccessTypes, fhirServiceBaseUrl)
        THEN << >>
        ELSE (IF Len(references) > 0 THEN <<SearchFilter("_references", references)>> ELSE << >>)
             \o (IF Len(ids) > 0 THEN <<SearchFilter("id", ids)>> ELSE << >>)

isAccessBulkDataJobAllowed(request) ==
    IF request.userIdentity.sub # request.jobOwnerId
    THEN Unauthorized("User does not have permission to access this Bulk Data Export job")
    ELSE NoError

\* the access decision of one resource for the request's identity and base URL
AccessOutcome(userIdentity, resource, fhirServiceBaseUrl, apiUrl, adminAccessTypes, fhirVersion) ==
    hasAccessToResource(userIdentity.fhirUserObject, userIdentity.patientLaunchContext, resource,
                        userIdentity.usableScopes, adminAccessTypes,
                        EffectiveBaseUrl(fhirServiceBaseUrl, apiUrl), fhirVersion)

\* return when the decision is truthy, throw UnauthorizedError(m) when it is falsy
Decided(outcome, m) ==
    IF outcome = T THEN NoError
    ELSE IF outcome = F THEN Unauthorized(m)
    ELSE Thrown(outcome)

isWriteRequestAuthorized(userIdentity, resourceBody, fhirServiceBaseUrl, apiUrl, adminAccessTypes, fhirVersion) ==
    Decided(AccessOutcome(userIdentity, resourceBody, fhirServiceBaseUrl, apiUrl, adminAccessTypes, fhirVersion),
            "User does not have permission for requested operation")

\* a search response: entry and total may each be absent
Bundle(entryPresent, entry, totalPresent, total) ==
    [entryPresent |-> entryPresent, entry |-> entry, totalPresent |-> totalPresent, total |-> total]
NoBundle == Bundle(FALSE, << >>, FALSE, 0)
NoResource == Undef

\* the filter callback's verdict on one entry, before the verdicts on the rest
Kept(outcome, entry, rest) ==
    IF outcome \notin {T, F} THEN [err |-> Thrown(outcome), kept |-> << >>]
    ELSE IF rest.err # NoError THEN rest
    ELSE [err |-> NoError, kept |-> (IF outcome = T THEN <<entry>> ELSE << >>) \o rest.kept]

\* (readResponse.entry ?? []).filter(...): the entries kept, or what the filter threw
RECURSIVE FilterEntries(_, _, _, _, _, _, _)
FilterEntries(entry, i, userIdentity, fhirServiceBaseUrl, apiUrl, adminAccessTypes, fhirVersion) ==
    IF i > Len(entry) THEN [err |-> NoError, kept |-> << >>]
    ELSE Kept(AccessOutcome(userIdentity, entry[i].resource, fhirServiceBaseUrl, apiUrl, adminAccessTypes, fhirVersion),
              entry[i],
              FilterEntries(entry, i + 1, userIdentity, fhirServiceBaseUrl, apiUrl, adminAccessTypes, fhirVersion))

\* the recomputed total, or the TypeError of readResponse.entry.length
FilteredTotal(readResponse, entries) ==
    IF ~readResponse.totalPresent \/ readResponse.total = 0
    THEN [err |-> NoError, total |-> Len(entries)]
    ELSE IF ~readResponse.entryPresent
    THEN [err |-> Raised("TypeError", "Cannot read properties of undefined (reading 'length')"), total |-> 0]
    ELSE [err |-> NoError, total |-> readResponse.total - (Len(readResponse.entry) - Len(entries))]

NoRead == [err |-> NoError, bundle |-> NoBundle, resource |-> NoResource]

\* { ...readResponse, entry: entries, total: numTotal }
FilteredBundle(filtered, numTotal) ==
    IF filtered.err # NoError THEN [NoRead EXCEPT !.err = filtered.err]
    ELSE IF numTotal.err # NoError THEN [NoRead EXCEPT !.err = numTotal.err]
    ELSE [NoRead EXCEPT !.bundle = Bundle(TRUE, filtered.kept, TRUE, numTotal.total)]

SearchRead(readResponse, filtered) ==
    FilteredBundle(filtered, FilteredTotal(readResponse, filtered.kept))

SingleRead(readResource, decided) ==
    IF decided = NoError THEN [NoRead EXCEPT !.resource = readResource]
    ELSE [NoRead EXCEPT !.err = decided]

authorizeAndFilterReadResponse(request, apiUrl, adminAccessTypes, fhirVersion) ==
    IF request.operation \in SEARCH_OPERATIONS
    THEN SearchRead(request.readResponse,
                    FilterEntries(IF request.readResponse.entryPresent
                                  THEN request.readResponse.entry ELSE << >>,
                                  1, request.userIdentity, request.fhirServiceBaseUrl, apiUrl,
                                  adminAccessTypes, fhirVersion))
    ELSE SingleRead(request.readResource,
                    Decided(AccessOutcome(request.userIdentity, request.readResource,
                                          request.fhirServiceBaseUrl, apiUrl, adminAccessTypes, fhirVersion),
                            "User does not have permission for requested resource"))

(***************************************************************************)
(* isBundleRequestAuthorized                                               *)
(***************************************************************************)
Entry(op, rt, res) == [operation |-> op, resourceType |-> rt, resource |-> res]

BundleUsableScopes(userIdentity) ==
    LET Keep(scope) ==
            \/ userIdentity.patientLaunchContext # NoId
                 /\ StartsWith(ScopeStr(scope), Chars("patient") \o <<"/">>)
            \/ userIdentity.fhirUserObject # NoId
                 /\ StartsWith(ScopeStr(scope), Chars("user") \o <<"/">>)
            \/ StartsWith(ScopeStr(scope), Chars("system") \o <<"/">>)
    IN  SelectSeq(userIdentity.scopes, Keep)

\* usableScopes.some(isScopeSufficient) for one entry
EntryCovered(entry, usableScopes) ==
    \E j \in 1..Len(usableScopes) :
        isScopeSufficient(usableScopes[j], entry.operation, IsUserScopeAllowedForSystemExport,
                          entry.resourceType)

MutatingOperations == {"create", "update", "patch", "delete"}

\* the promise of one entry: NoError when it resolves, the error it rejects with
EntryPromise(entry, userIdentity, fhirServiceBaseUrl, apiUrl, adminAccessTypes, fhirVersion) ==
    IF entry.operation \in MutatingOperations
    THEN isWriteRequestAuthorized([userIdentity EXCEPT !.usableScopes = BundleUsableScopes(userIdentity)],
                                  entry.resource, fhirServiceBaseUrl, apiUrl, adminAccessTypes, fhirVersion)
    ELSE NoError

(***************************************************************************)
(* The handler: its state, the requests it is given and what it answers.   *)
(***************************************************************************)
Config(v, jwks, introspection) ==
    [version |-> v, jwksEndpoint |-> jwks, tokenIntrospection |-> introspection]
Configs ==
    {Config(v, j, t) : v \in {HandlerVersion, HandlerVersion + 1}, j \in BOOLEAN, t \in BOOLEAN}

NewHandler == [state |-> "new", config |-> Config(0, FALSE, FALSE), jwksClient |-> FALSE]

NoRequest ==
    [op |-> "none", accessToken |-> NoToken, operation |-> "", resourceType |-> "",
     bulkDataAuth |-> NoBulk, fhirServiceBaseUrl |-> "", userIdentity |-> NoIdentity,
     readResponse |-> NoBundle, readResource |-> NoResource, resourceBody |-> NoResource,
     requests |-> << >>, jobOwnerId |-> ""]

NoResult ==
    [err |-> NoError, identity |-> NoIdentity, filters |-> << >>, bundle |-> NoBundle,
     resource |-> NoResource]

Failed(e) == [NoResult EXCEPT !.err = e]

\* requests of verifyAccessToken
VerifyRequest(op, rt, bulk, url) ==
    [NoRequest EXCEPT !.op = "verifyAccessToken", !.operation = op, !.resourceType = rt,
                      !.bulkDataAuth = bulk, !.fhirServiceBaseUrl = url]

Urls == {"", ExtUrl}

VerifyRequests ==
    {VerifyRequest(x[1], x[2], x[3], url) :
        x \in {<<"read", "Encounter", NoBulk>>, <<"read", "MedicationRequest", NoBulk>>,
               <<"create", "Encounter", NoBulk>>, <<"search-type", "", NoBulk>>,
               <<"read", "", BulkInitiateSystem>>, <<"read", "", BulkGetStatus>>},
        url \in Urls}

FhirUserClaims ==
    {NoClaim, ClaimStr(ApiUrl, "Practitioner", "p1"), ClaimStr(ApiUrl, "Patient", "pt1"),
     ClaimStr(ExtUrl, "Patient", "pt1"), ClaimStr("", "Practitioner", "p1")}
PatientClaims == {NoClaim, ClaimStr("", "Patient", "pt1"), ClaimStr("", "patient", "pt1")}
Subjects == {"", "sub-1"}

AllClaims ==
    {Claims(sl, fu, pt, sub) : sl \in ScopeLists, fu \in FhirUserClaims, pt \in PatientClaims,
                               sub \in Subjects}
BaseClaims == Claims(<<Scope("user", "*", "write"), Scope("user", "Encounter", "read")>>,
                     ClaimStr(ApiUrl, "Practitioner", "p1"), NoClaim, "sub-1")

Audiences ==
    {AudUndefined, AudString(ExpectedAud), AudString("api://other"),
     AudArray(<<"api://other", ExpectedAud>>)}

\* every envelope with one set of claims, and every set of claims in a sound envelope
Tokens ==
    {Token(dec, iss, aud, kid, sig, act, BaseClaims) :
        dec \in BOOLEAN, iss \in {ExpectedIss, "https://evil.example.com"}, aud \in Audiences,
        kid \in BOOLEAN, sig \in BOOLEAN, act \in BOOLEAN}
    \cup {Token(TRUE, ExpectedIss, AudString(ExpectedAud), TRUE, TRUE, TRUE, c) : c \in AllClaims}

\* the identities the other operations are given: what verifyAccessToken returned
OpScopeCatalogue ==
    << Scope("system", "MedicationRequest", "read"), Scope("user", "*", "write"),
       Scope("user", "Encounter", "read"), Scope("patient", "*", "read") >>
OpScopeLists ==
    {Pick(OpScopeCatalogue, S) :
        S \in {X \in SUBSET (1..Len(OpScopeCatalogue)) : Cardinality(X) <= MaxScopes}}
OpClaims ==
    {Claims(sl, fu, pt, "sub-1") :
        sl \in OpScopeLists, fu \in FhirUserClaims \ {ClaimStr("", "Practitioner", "p1")},
        pt \in {NoClaim, ClaimStr("", "Patient", "pt1")}}
OpIdentities ==
    {v.identity :
        v \in {w \in {VerifiedIdentity(r, c, ApiUrl) :
                        r \in {VerifyRequest("read", "", NoBulk, ""), VerifyRequest("create", "", NoBulk, "")},
                        c \in OpClaims} : w.err = NoError}}

OpResources == {ResourceCatalogue[5], ResourceCatalogue[8], ResourceCatalogue[10], ResourceCatalogue[11]}

\* the sequences of at most n elements of S
SeqsUpTo(S, n) == UNION {[1..k -> S] : k \in 0..n}

SearchResponses ==
    {Bundle(TRUE, e, tp[1], tp[2]) : e \in SeqsUpTo({[resource |-> r] : r \in OpResources}, MaxEntries),
                                     tp \in {<<FALSE, 0>>, <<TRUE, 0>>, <<TRUE, 5>>}}
    \cup {Bundle(FALSE, << >>, tp[1], tp[2]) : tp \in {<<FALSE, 0>>, <<TRUE, 0>>, <<TRUE, 5>>}}

EntryCatalogue ==
    {Entry("create", "Encounter", ResourceCatalogue[5]),
     Entry("update", "MedicationRequest", ResourceCatalogue[11]),
     Entry("read", "Encounter", NoResource),
     Entry("create", "Encounter", ResourceCatalogue[10])}
BundleRequests == SeqsUpTo(EntryCatalogue, MaxEntries)

(***************************************************************************)
(* Actions of the handler.                                                 *)
(***************************************************************************)

Init ==
    /\ h = HIdle
    /\ handler = NewHandler
    /\ pc = "new"
    /\ req = NoRequest
    /\ result = NoResult
    /\ netCalls = 0
    /\ stages = << >>
    /\ pending = {}
    /\ settled = << >>

\* a constructor that also refuses a configuration without exactly one verification mode
ConstructExactlyOneMode ==
    /\ pc = "new"
    /\ \E config \in Configs :
        IF config.version # HandlerVersion
        THEN /\ handler' = [state |-> "failed", config |-> config, jwksClient |-> FALSE]
             /\ pc' = "failed"
             /\ result' = Failed(Raised("Error",
                               "Authorization configuration version does not match handler version"))
        ELSE IF config.jwksEndpoint = config.tokenIntrospection
        THEN /\ handler' = [state |-> "failed", config |-> config, jwksClient |-> FALSE]
             /\ pc' = "failed"
             /\ result' = Failed(Raised("Error", "Authorization configuration not properly set up"))
        ELSE /\ handler' = [state |-> "ready", config |-> config,
                             jwksClient |-> config.jwksEndpoint /\ ~config.tokenIntrospection]
             /\ pc' = "idle"
             /\ result' = NoResult
    /\ UNCHANGED <<h, req, netCalls, stages, pending, settled>>

\* new SMARTHandler(config, apiUrl, fhirVersion)
Construct ==
    /\ pc = "new"
    /\ \E config \in Configs :
        IF config.version # HandlerVersion
        THEN /\ handler' = [state |-> "failed", config |-> config, jwksClient |-> FALSE]
             /\ pc' = "failed"
             /\ result' = Failed(Raised("Error",
                               "Authorization configuration version does not match handler version"))
        ELSE /\ handler' = [state |-> "ready", config |-> config,
                             jwksClient |-> config.jwksEndpoint /\ ~config.tokenIntrospection]
             /\ pc' = "idle"
             /\ result' = NoResult
    /\ UNCHANGED <<h, req, netCalls, stages, pending, settled>>

\* verifyAccessToken up to its first await: introspectJwtToken or verifyJwtToken up to
\* the network call
VerifyStart ==
    /\ pc = "idle"
    /\ \E token \in Tokens, request \in VerifyRequests :
        LET decoded == decodeJwtToken(token, ExpectedAud, ExpectedIss)
        IN  /\ req' = [request EXCEPT !.accessToken = token]
            /\ IF handler.config.tokenIntrospection
               THEN IF decoded.err # NoError
                    THEN /\ pc' = "done" /\ result' = Failed(decoded.err)
                         /\ stages' = decoded.passed /\ netCalls' = 0
                    ELSE /\ pc' = "awaitIntrospection" /\ result' = NoResult
                         /\ stages' = decoded.passed /\ netCalls' = 1
               ELSE IF handler.jwksClient
               THEN IF decoded.err # NoError
                    THEN /\ pc' = "done" /\ result' = Failed(decoded.err)
                         /\ stages' = decoded.passed /\ netCalls' = 0
                    ELSE IF ~token.kid
                    THEN /\ pc' = "done" /\ result' = Failed(Unauthorized(GENERIC_ERR_MESSAGE))
                         /\ stages' = decoded.passed /\ netCalls' = 0
                    ELSE /\ pc' = "awaitKey" /\ result' = NoResult
                         /\ stages' = decoded.passed \o <<"kid">> /\ netCalls' = 1
               ELSE /\ pc' = "done"
                    /\ result' = Failed(Raised("Error", "Authorization configuration not properly set up. Either 'tokenIntrospection' or 'jwksEndpoint' must be present"))
                    /\ stages' = << >> /\ netCalls' = 0
    /\ UNCHANGED <<h, handler, pending, settled>>

\* the rest of verifyAccessToken, once the token is verified
VerifyFinish ==
    LET v == VerifiedIdentity(req, req.accessToken.claims, ApiUrl)
    IN  /\ pc' = "done"
        /\ result' = [NoResult EXCEPT !.err = v.err, !.identity = v.identity]
        /\ stages' = stages \o <<"verified">>

VerifyDenied ==
    /\ pc' = "done"
    /\ result' = Failed(Unauthorized(GENERIC_ERR_MESSAGE))
    /\ stages' = stages

\* the introspection endpoint answers (or the call fails)
IntrospectionReply ==
    /\ pc = "awaitIntrospection"
    /\ \E answered \in BOOLEAN :
        IF answered /\ req.accessToken.active THEN VerifyFinish ELSE VerifyDenied
    /\ UNCHANGED <<h, handler, req, netCalls, pending, settled>>

\* the signing key is resolved (or not), and jsonwebtoken.verify runs
SigningKeyReply ==
    /\ pc = "awaitKey"
    /\ \E keyFound \in BOOLEAN :
        IF keyFound /\ req.accessToken.signatureValid THEN VerifyFinish ELSE VerifyDenied
    /\ UNCHANGED <<h, handler, req, netCalls, pending, settled>>

OpRequest(op, ident, url) ==
    [NoRequest EXCEPT !.op = op, !.userIdentity = ident, !.fhirServiceBaseUrl = url]

GetSearchFilterBasedOnIdentity ==
    /\ pc = "idle"
    /\ \E ident \in OpIdentities, rt \in {"", "Patient", "Encounter"}, url \in Urls :
        LET request == [OpRequest("getSearchFilterBasedOnIdentity", ident, url) EXCEPT !.resourceType = rt]
        IN  /\ req' = request
            /\ result' = [NoResult EXCEPT
                             !.filters = getSearchFilterBasedOnIdentity(request, ApiUrl, AdminAccessTypes)]
    /\ pc' = "done"
    /\ UNCHANGED <<h, handler, netCalls, stages, pending, settled>>

IsAccessBulkDataJobAllowed ==
    /\ pc = "idle"
    /\ \E ident \in OpIdentities, owner \in {"sub-1", "sub-2"} :
        LET request == [OpRequest("isAccessBulkDataJobAllowed", ident, "") EXCEPT !.jobOwnerId = owner]
        IN  /\ req' = request
            /\ result' = Failed(isAccessBulkDataJobAllowed(request))
    /\ pc' = "done"
    /\ UNCHANGED <<h, handler, netCalls, stages, pending, settled>>

IsWriteRequestAuthorized ==
    /\ pc = "idle"
    /\ \E ident \in OpIdentities, res \in OpResources, url \in Urls :
        /\ req' = [OpRequest("isWriteRequestAuthorized", ident, url) EXCEPT
                      !.operation = "create", !.resourceBody = res]
        /\ result' = Failed(isWriteRequestAuthorized(ident, res, url, ApiUrl, AdminAccessTypes, FhirVersion))
    /\ pc' = "done"
    /\ UNCHANGED <<h, handler, netCalls, stages, pending, settled>>

ReadResult(request) ==
    LET r == authorizeAndFilterReadResponse(request, ApiUrl, AdminAccessTypes, FhirVersion)
    IN  [NoResult EXCEPT !.err = r.err, !.bundle = r.bundle, !.resource = r.resource]

AuthorizeAndFilterReadResponse ==
    /\ pc = "idle"
    /\ \/ \E ident \in OpIdentities, res \in OpResources, url \in Urls :
            /\ req' = [OpRequest("authorizeAndFilterReadResponse", ident, url) EXCEPT
                          !.operation = "read", !.readResource = res]
            /\ result' = ReadResult(req')
       \/ \E ident \in OpIdentities, b \in SearchResponses, url \in Urls :
            /\ req' = [OpRequest("authorizeAndFilterReadResponse", ident, url) EXCEPT
                          !.operation = "search-type", !.readResponse = b]
            /\ result' = ReadResult(req')
    /\ pc' = "done"
    /\ UNCHANGED <<h, handler, netCalls, stages, pending, settled>>

\* isBundleRequestAuthorized up to `await Promise.all(authWritePromises)`
BundleStart ==
    /\ pc = "idle"
    /\ \E ident \in OpIdentities, requests \in BundleRequests :
        LET usableScopes == BundleUsableScopes(ident)
        IN  /\ req' = [OpRequest("isBundleRequestAuthorized", ident, "") EXCEPT !.requests = requests]
            /\ IF \E j \in 1..Len(requests) : ~EntryCovered(requests[j], usableScopes)
               THEN /\ pc' = "done"
                    /\ result' = Failed(Unauthorized("An entry within the Bundle is not authorized"))
                    /\ pending' = {}
               ELSE /\ pc' = "awaitEntries"
                    /\ result' = NoResult
                    /\ pending' = 1..Len(requests)
    /\ settled' = << >>
    /\ UNCHANGED <<h, handler, netCalls, stages>>

EntryError(j) ==
    EntryPromise(req.requests[j], req.userIdentity, req.fhirServiceBaseUrl, ApiUrl,
                 AdminAccessTypes, FhirVersion)

\* one of the started checks completes
EntrySettles ==
    /\ pc = "awaitEntries"
    /\ \E j \in pending :
        /\ pending' = pending \ {j}
        /\ settled' = Append(settled, j)
    /\ UNCHANGED <<h, handler, pc, req, result, netCalls, stages>>

\* the answer taken from the check that completed last
BundleFinishLastSettled ==
    /\ pc = "awaitEntries"
    /\ LET rejected == Len(settled) > 0 /\ EntryError(settled[Len(settled)]) # NoError
       IN  /\ rejected \/ pending = {}
           /\ result' = IF rejected
                         THEN Failed(Unauthorized("An entry within the Bundle is not authorized"))
                         ELSE NoResult
    /\ pc' = "done"
    /\ UNCHANGED <<h, handler, req, netCalls, stages, pending, settled>>

\* Promise.all settles: on the first rejection, or when every check has resolved
BundleFinish ==
    /\ pc = "awaitEntries"
    /\ LET rejected == \E k \in 1..Len(settled) : EntryError(settled[k]) # NoError
       IN  /\ rejected \/ pending = {}
           /\ result' = IF rejected
                         THEN Failed(Unauthorized("An entry within the Bundle is not authorized"))
                         ELSE NoResult
    /\ pc' = "done"
    /\ UNCHANGED <<h, handler, req, netCalls, stages, pending, settled>>

\* the caller has the answer; the handler keeps nothing of the request
Return ==
    /\ pc = "done"
    /\ pc' = "idle"
    /\ req' = NoRequest
    /\ result' = NoResult
    /\ netCalls' = 0
    /\ stages' = << >>
    /\ pending' = {}
    /\ settled' = << >>
    /\ UNCHANGED <<h, handler>>

Next ==
    \/ Construct
    \/ VerifyStart
    \/ IntrospectionReply
    \/ SigningKeyReply
    \/ GetSearchFilterBasedOnIdentity
    \/ IsAccessBulkDataJobAllowed
    \/ IsWriteRequestAuthorized
    \/ AuthorizeAndFilterReadResponse
    \/ BundleStart
    \/ EntrySettles
    \/ BundleFinish
    \/ Return

Spec == Init /\ [][Next]_vars

(***************************************************************************)
(* Properties.                                                             *)
(***************************************************************************)
VerifyDone == pc = "done" /\ req.op = "verifyAccessToken"
Returned == VerifyDone /\ result.err = NoError
Denied == result.err.kind = "UnauthorizedError"
AudienceOk(token) ==
    token.aud.k # "undefined" /\ \E j \in 1..Len(token.aud.v) : token.aud.v[j] = ExpectedAud
IntrospectionMode == handler.config.tokenIntrospection
SignatureMode == ~handler.config.tokenIntrospection /\ handler.jwksClient

\* C1: verifyAccessToken returns an identity only after the token passed decoding, the
\* issuer check, the audience check and then the configured verification, in this order;
\* a token whose iss is not the expected issuer is denied in both modes without any
\* signing-key lookup or introspection call, whatever that call would have answered.
C1_VerificationOrder ==
    /\ Returned =>
          /\ req.accessToken.decodable
          /\ req.accessToken.iss = ExpectedIss
          /\ AudienceOk(req.accessToken)
          /\ netCalls = 1
          /\ IntrospectionMode =>
                /\ req.accessToken.active
                /\ stages = <<"decode", "iss", "aud", "verified">>
          /\ ~IntrospectionMode =>
                /\ SignatureMode
                /\ req.accessToken.kid /\ req.accessToken.signatureValid
                /\ stages = <<"decode", "iss", "aud", "kid", "verified">>
    /\ (req.op = "verifyAccessToken" /\ req.accessToken.iss # ExpectedIss
            /\ (IntrospectionMode \/ SignatureMode)) =>
          /\ pc = "done"
          /\ netCalls = 0
          /\ result = Failed(Unauthorized(GENERIC_ERR_MESSAGE))

\* a well-signed, active token of another issuer has been denied
C1_Witness ==
    /\ VerifyDone /\ Denied
    /\ SignatureMode
    /\ req.accessToken.decodable /\ req.accessToken.iss # ExpectedIss
    /\ AudienceOk(req.accessToken) /\ req.accessToken.kid
    /\ req.accessToken.signatureValid /\ req.accessToken.active

Elems(seq) == {seq[j] : j \in 1..Len(seq)}
Verified == VerifyDone /\ "verified" \in Elems(stages)
UsableOfToken ==
    filterOutUnusableScope(getScopes(req.accessToken.claims.scope), req.operation,
                           IsUserScopeAllowedForSystemExport, req.resourceType, req.bulkDataAuth,
                           req.accessToken.claims.patient, req.accessToken.claims.fhirUser)

\* C4: the usable scopes of a returned identity are a non-empty subset of the scopes the
\* token presented; when no presented scope is usable for the request verifyAccessToken
\* denies and returns no identity; the usable scopes isBundleRequestAuthorized recomputes
\* are again a subset of the identity's scopes.
C4_UsableScopes ==
    /\ Returned =>
          /\ result.identity.scopes = req.accessToken.claims.scope
          /\ Elems(result.identity.usableScopes) \subseteq Elems(result.identity.scopes)
          /\ Elems(result.identity.usableScopes) # {}
    /\ (Verified /\ UsableOfToken = << >>) =>
          /\ Denied
          /\ result.identity = NoIdentity
    /\ req.op = "isBundleRequestAuthorized" =>
          Elems(BundleUsableScopes(req.userIdentity)) \subseteq Elems(req.userIdentity.scopes)

\* a verified token that presents scopes, none of them usable, has been denied
C4_Witness ==
    /\ Verified /\ Denied
    /\ req.accessToken.claims.scope # << >>
    /\ UsableOfToken = << >>
    /\ result.identity = NoIdentity

BulkDataAllowed ==
    LET claims == req.accessToken.claims
        fhirUser == getFhirUser(claims.fhirUser)
    IN  /\ claims.sub # ""
        /\ \/ \E scope \in Elems(UsableOfToken) : scope.scopeType = "system"
           \/ /\ claims.fhirUser # NoClaim
              /\ fhirUser.err = NoError
              /\ fhirUser.id.hostname = (IF req.fhirServiceBaseUrl # ""
                                         THEN req.fhirServiceBaseUrl ELSE ApiUrl)
              /\ fhirUser.id.resourceType \in BulkDataAccessTypes

\* C5: with bulkDataAuth set, verifyAccessToken returns an identity only if the token has
\* a sub and either a usable system scope or a fhirUser claim that parses to an identity
\* of the effective base URL with a type in bulkDataAccessTypes; otherwise it denies
\* with an UnauthorizedError.
C5_BulkDataAccess ==
    (Verified /\ req.bulkDataAuth # NoBulk) =>
        /\ Returned => BulkDataAllowed
        /\ ~BulkDataAllowed => Denied /\ result.identity = NoIdentity

\* C10: every authorization denial carries the one message "Invalid access token".
C10_OneOpaqueMessage ==
    (pc = "done" /\ Denied) => result.err.msg = GENERIC_ERR_MESSAGE

\* C10 as the code has it: every denial is an UnauthorizedError; those raised while the
\* token itself is verified (decoding, issuer, audience, kid, signing key, signature,
\* introspection) all carry "Invalid access token"; a denial raised after the token is
\* verified carries a message that names the kind of failure.
C10_DenialMessages ==
    /\ (VerifyDone /\ ~Verified /\ (IntrospectionMode \/ SignatureMode)) =>
          result = Failed(Unauthorized(GENERIC_ERR_MESSAGE))
    /\ (pc = "done" /\ result.err # NoError /\ result.err.kind # "UnauthorizedError") =>
          result.err.kind \in {"Error", "TypeError"}
    /\ (pc = "done" /\ Denied) =>
          CASE req.op = "verifyAccessToken" /\ ~Verified ->
                 result.err.msg = GENERIC_ERR_MESSAGE
            [] req.op = "verifyAccessToken" /\ Verified ->
                 result.err.msg \in {"access_token does not have permission for requested operation",
                                     "User does not have permission for requested operation",
                                     "Requester's identity is in the incorrect format",
                                     "Resource is in the incorrect format"}
            [] req.op = "isAccessBulkDataJobAllowed" ->
                 result.err.msg = "User does not have permission to access this Bulk Data Export job"
            [] req.op = "isBundleRequestAuthorized" ->
                 result.err.msg = "An entry within the Bundle is not authorized"
            [] req.op = "authorizeAndFilterReadResponse" ->
                 result.err.msg = "User does not have permission for requested resource"
            [] req.op = "isWriteRequestAuthorized" ->
                 result.err.msg = "User does not have permission for requested operation"
            [] OTHER -> FALSE

\* a token with a bad signature was denied with the opaque message
C10_Witness ==
    /\ VerifyDone /\ ~Verified
    /\ stages = <<"decode", "iss", "aud", "kid">>
    /\ ~req.accessToken.signatureValid
    /\ result = Failed(Unauthorized(GENERIC_ERR_MESSAGE))

BundleDone == pc = "done" /\ req.op = "isBundleRequestAuthorized"
\* the access check of entry j of the bundle, with the scopes usable for the bundle
EntryAccess(j) ==
    hasAccessToResource(req.userIdentity.fhirUserObject, req.userIdentity.patientLaunchContext,
                        req.requests[j].resource, BundleUsableScopes(req.userIdentity),
                        AdminAccessTypes, ApiUrl, FhirVersion)
EntryAllowed(j) ==
    /\ EntryCovered(req.requests[j], BundleUsableScopes(req.userIdentity))
    /\ req.requests[j].operation \in {"create", "update", "patch", "delete"} => EntryAccess(j) = T

\* C3: a bundle is allowed iff every entry is covered by a bundle-usable scope and every
\* create/update/patch/delete entry passes the access check; otherwise the whole bundle
\* is rejected with one aggregate UnauthorizedError, in whatever order the checks of the
\* entries complete.
C3_BundleAllOrNothing ==
    BundleDone =>
        /\ result.err = NoError <=> \A j \in 1..Len(req.requests) : EntryAllowed(j)
        /\ result.err # NoError =>
              result = Failed(Unauthorized("An entry within the Bundle is not authorized"))

\* of two writes the one that passes completed first, the one that fails second, and the
\* bundle was rejected
C3_Witness ==
    /\ BundleDone /\ Denied
    /\ Len(req.requests) = 2 /\ settled = <<2, 1>>
    /\ EntryAllowed(2) /\ ~EntryAllowed(1)
    /\ EntryCovered(req.requests[1], BundleUsableScopes(req.userIdentity))

SearchFiltersDone == pc = "done" /\ req.op = "getSearchFilterBasedOnIdentity"
FilterBase == IF req.fhirServiceBaseUrl # "" THEN req.fhirServiceBaseUrl ELSE ApiUrl
PresentIdentities ==
    {x \in {req.userIdentity.fhirUserObject, req.userIdentity.patientLaunchContext} : x # NoId}
ExpectedReferences ==
    {AbsRef(x.hostname, x.resourceType, x.id) : x \in PresentIdentities}
    \cup {RelRef(x.resourceType, x.id) : x \in {y \in PresentIdentities : y.hostname = FilterBase}}
ExpectedIds == {x.id : x \in {y \in PresentIdentities : y.resourceType = req.resourceType}}
Unrestricted ==
    \/ \E scope \in Elems(req.userIdentity.usableScopes) : scope.scopeType = "system"
    \/ /\ req.userIdentity.fhirUserObject # NoId
       /\ req.userIdentity.fhirUserObject.hostname = FilterBase
       /\ req.userIdentity.fhirUserObject.resourceType \in AdminAccessTypes
FilterFor(key, values) ==
    IF values = {} THEN \A f \in Elems(result.filters) : f.key # key
    ELSE \E j \in 1..Len(result.filters) :
            /\ result.filters[j].key = key
            /\ Elems(result.filters[j].value) = values
            /\ Len(result.filters[j].value) = Cardinality(values)
            /\ \A k \in 1..Len(result.filters) : result.filters[k].key = key => k = j

ReadDone == pc = "done" /\ req.op = "authorizeAndFilterReadResponse"
ReadAccess(resource) ==
    hasAccessToResource(req.userIdentity.fhirUserObject, req.userIdentity.patientLaunchContext,
                        resource, req.userIdentity.usableScopes, AdminAccessTypes, FilterBase,
                        FhirVersion)
EntryPasses(entry) == ReadAccess(entry.resource) = T
ResponseEntries == IF req.readResponse.entryPresent THEN req.readResponse.entry ELSE << >>
PassingEntries == SelectSeq(ResponseEntries, EntryPasses)

\* C9: for a search the answer is the bundle with exactly the entries that pass
\* hasAccessToResource, in their order, and a total of the reported total less the
\* entries dropped, or the number of entries kept when no total was reported; for any
\* other operation the answer is the response itself if it is accessible, and a denial
\* with nothing returned otherwise.
C9_ReadResponseFiltered ==
    ReadDone =>
        IF req.operation \in SEARCH_OPERATIONS
        THEN /\ result.err = NoError
             /\ result.bundle.entry = PassingEntries
             /\ result.bundle.total =
                    IF req.readResponse.totalPresent
                    THEN req.readResponse.total - (Len(ResponseEntries) - Len(PassingEntries))
                    ELSE Len(PassingEntries)
        ELSE IF ReadAccess(req.readResource) = T
             THEN result.err = NoError /\ result.resource = req.readResource
             ELSE Denied /\ result.resource = NoResource

AccessCall == h.fn = "hasAccessToResource"
Access(fhirUser, patient, scopes) ==
    hasAccessToResource(fhirUser, patient, h.resource, scopes, AdminAccessTypes, h.apiUrl, h.version)

\* C2: hasAccessToResource is the union of its three channels, and adding scopes or
\* supplying an identity that was absent never turns a granted result into one that is
\* not granted.
C2_UnionAndMonotonic ==
    AccessCall =>
        /\ h.out = T <=>
              \/ hasSystemAccess(h.scopes, ResType(h.resource))
              \/ /\ h.fhirUser # NoId
                 /\ \/ isFhirUserAdmin(h.fhirUser, AdminAccessTypes, h.apiUrl)
                    \/ hasReferenceToResource(h.fhirUser, h.resource, h.apiUrl, h.version) = T
              \/ /\ h.patient # NoId
                 /\ hasReferenceToResource(h.patient, h.resource, h.apiUrl, h.version) = T
        /\ Access(NoId, h.patient, h.scopes) = T => h.out = T
        /\ Access(h.fhirUser, NoId, h.scopes) = T => h.out = T
        /\ \A j \in 1..Len(h.scopes) :
              Access(h.fhirUser, h.patient, SelectSeq(h.scopes, LAMBDA sc : sc # h.scopes[j])) = T
                  => h.out = T

\* C6: hasSystemAccess is true exactly when some usable scope is a system scope whose
\* resource type is * or the resource type asked for.
C6_SystemAccessExact ==
    (h.fn = "hasSystemAccess" /\ h.rtype \in ResourceTypes) =>
        (h.out = T <=> \E scope \in Elems(h.scopes) :
                          /\ scope.scopeType = "system"
                          /\ scope.resourceType \in {"*", h.rtype})

\* system access for a resource type: some usable scope is a system scope for * or for
\* that resource type
SystemAccess(scopes, resourceType) ==
    \E scope \in Elems(scopes) :
        scope.scopeType = "system" /\ scope.resourceType \in {"*", resourceType}

\* C7: a fhirUser of an admin resource type whose hostname is the server base URL is
\* granted access to every resource, with no reference check; with another hostname it
\* is not an admin and, without system access for the resource's type and without a
\* patient context, is granted access only to a resource that references it.
C7_AdminBypass ==
    /\ h.fn = "isFhirUserAdmin" =>
          (h.out = T <=> /\ h.fhirUser.hostname = h.apiUrl
                         /\ h.fhirUser.resourceType \in AdminAccessTypes)
    /\ (AccessCall /\ h.fhirUser # NoId /\ h.fhirUser.resourceType \in AdminAccessTypes) =>
          IF h.fhirUser.hostname = h.apiUrl THEN h.out = T
          ELSE (h.patient = NoId /\ ~SystemAccess(h.scopes, ResType(h.resource))) =>
                  (h.out = T =>
                     hasReferenceToResource(h.fhirUser, h.resource, h.apiUrl, h.version) = T)

Constructed == handler.state = "ready"
NoModeError ==
    Raised("Error", "Authorization configuration not properly set up. Either 'tokenIntrospection' or 'jwksEndpoint' must be present")

\* C11: construction fails when the version differs or when it is not the case that
\* exactly one of jwksEndpoint and tokenIntrospection is configured, so a constructed
\* handler always has exactly one verification mode.
C11_ExactlyOneMode ==
    Constructed =>
        /\ handler.config.version = HandlerVersion
        /\ handler.config.jwksEndpoint # handler.config.tokenIntrospection

\* C11 as the code has it: construction fails only when the version differs. The mode
\* is fixed by the configuration: introspection when tokenIntrospection is configured
\* (whether or not jwksEndpoint is), signature verification when only jwksEndpoint is,
\* and with neither the handler is constructed and verifyAccessToken raises a
\* configuration error, not a denial, before it looks at the token.
C11_ConstructionAndMode ==
    /\ handler.state = "failed" <=>
          (handler.state # "new" /\ handler.config.version # HandlerVersion)
    /\ handler.state = "failed" =>
          /\ pc = "failed"
          /\ result.err = Raised("Error",
                                 "Authorization configuration version does not match handler version")
    /\ Constructed =>
          /\ handler.jwksClient <=>
                (handler.config.jwksEndpoint /\ ~handler.config.tokenIntrospection)
          /\ pc = "awaitIntrospection" => handler.config.tokenIntrospection
          /\ pc = "awaitKey" => ~handler.config.tokenIntrospection /\ handler.config.jwksEndpoint
          /\ netCalls <= 1
          /\ (VerifyDone /\ ~handler.config.tokenIntrospection /\ ~handler.config.jwksEndpoint) =>
                /\ result = Failed(NoModeError)
                /\ stages = << >> /\ netCalls = 0
          /\ (VerifyDone /\ handler.config.tokenIntrospection /\ handler.config.jwksEndpoint) =>
                (Returned => stages = <<"decode", "iss", "aud", "verified">>)

\* a handler constructed with neither mode was asked to verify a sound token and raised
\* the configuration error
C11_Witness ==
    /\ Constructed /\ VerifyDone
    /\ ~handler.config.tokenIntrospection /\ ~handler.config.jwksEndpoint
    /\ req.accessToken.decodable /\ req.accessToken.iss = ExpectedIss
    /\ req.accessToken.signatureValid /\ req.accessToken.active
    /\ result = Failed(NoModeError)

SupportedVersions == {"4.0.1", "3.0.1"}

\* the values a path leads to from v: every element of a list is followed at any
\* segment, and an absent value leads nowhere
RECURSIVE Reached(_, _, _)
Reached(v, path, i) ==
    IF v.k = "array" THEN UNION {Reached(v.a[j], path, i) : j \in 1..Len(v.a)}
    ELSE IF v.k # "object" THEN {}
    ELSE IF i > Len(path) THEN {v}
    ELSE Reached(Get(v, path[i]), path, i + 1)

\* the resource holds one of the candidate references at one of the paths
ContainsReference(resource, paths, candidates) ==
    \E j \in 1..Len(paths) :
        \E leaf \in Reached(resource, paths[j], 1) :
            /\ Get(leaf, "reference").k = "string"
            /\ Get(leaf, "reference").s \in candidates

RequestorPaths == PossiblePaths(h.version, ResType(h.resource), h.fhirUser.resourceType)
RequestorAbs == AbsRef(h.fhirUser.hostname, h.fhirUser.resourceType, h.fhirUser.id)
RequestorRel == RelRef(h.fhirUser.resourceType, h.fhirUser.id)
RequestorIsSource ==
    h.fhirUser.resourceType = ResType(h.resource) /\ h.fhirUser.id = ResId(h.resource)

\* C12: for a requestor of another server hasReferenceToResource is true only if the
\* resource holds its absolute reference at a matrix path; for a requestor of this
\* server it is true iff the resource is the requestor itself or holds its relative or
\* absolute reference at a matrix path.
C12_ReferenceForms ==
    (h.fn = "hasReferenceToResource" /\ h.version \in SupportedVersions) =>
        IF h.fhirUser.hostname # h.apiUrl
        THEN h.out = T => ContainsReference(h.resource, RequestorPaths, {RequestorAbs})
        ELSE h.out = T <=>
               \/ RequestorIsSource
               \/ ContainsReference(h.resource, RequestorPaths, {RequestorRel, RequestorAbs})

\* C13: isRequestorReferenced is true iff along some matrix path, every element of a list
\* followed and absent values skipped, a leaf holds a candidate reference; it is false
\* otherwise, and raises the configuration error for an unsupported FHIR version.
C13_ReferenceWalk ==
    h.fn = "isRequestorReferenced" =>
        IF h.version \notin SupportedVersions THEN h.out = VersionErr
        ELSE IF ContainsReference(h.resource, RequestorPaths,
                                  Elems(RequestorIds(h.fhirUser, h.apiUrl)))
        THEN h.out = T
        ELSE h.out = F

\* the identity holds a system scope that is itself sufficient for entry j
SystemScopeSufficient(j) ==
    \E scope \in Elems(BundleUsableScopes(req.userIdentity)) :
        /\ scope.scopeType = "system"
        /\ isScopeSufficient(scope, req.requests[j].operation, IsUserScopeAllowedForSystemExport,
                             req.requests[j].resourceType)

\* entry j is granted by the fhirUser or the patient context, without any scope
GrantedByIdentity(j) ==
    hasAccessToResource(req.userIdentity.fhirUserObject, req.userIdentity.patientLaunchContext,
                        req.requests[j].resource, << >>, AdminAccessTypes, ApiUrl, FhirVersion) = T

\* C14: in an allowed bundle every create/update/patch/delete entry is granted by the
\* fhirUser or patient context, or by a system scope that is itself sufficient for the
\* operation and resource type of the entry; a system scope that only permits reading
\* the type does not let a write through.
C14_SystemScopeSufficientForWrite ==
    (BundleDone /\ result.err = NoError) =>
        \A j \in 1..Len(req.requests) :
            req.requests[j].operation \in {"create", "update", "patch", "delete"} =>
                SystemScopeSufficient(j) \/ GrantedByIdentity(j)

====
